---- MODULE Spec2Model ----
(***************************************************************************)
(* State-machine model of the carousel: the view model hook                *)
(* (CarouselViewModel.ts), the gesture and wrap handling of the view       *)
(* (CarouselView.tsx) and the container that wires them (Carousel.tsx).    *)
(* One action is one event handler or timer callback together with the     *)
(* re-render and the effects that React runs after it.                     *)
(***************************************************************************)
EXTENDS Integers, FiniteSets, Sequences, TLC

(***************************************************************************)
(* Bounds of the model and constants of the program.                      *)
(***************************************************************************)
MaxItems == 3
MaxGoTo == 7
MaxPendingResets == 1
MaxPendingRaf == 1
MaxQueuedRaf == 2

MIN_DRAG_DISTANCE == 40
DRAG_FLAG_THRESHOLD == 5
MIN_ITEMS == 3
NoTimer == 0
DESKTOP_MIN_WIDTH == 640
DEFAULT_CARD_WIDTH == 300
DEFAULT_VIEWPORT_WIDTH == 750
BREAKPOINT_MOBILE == 640
BREAKPOINT_SMALL_TABLET == 768
BREAKPOINT_TABLET == 1024

\* Pointer x coordinates fed to the drag handlers.  Their differences are
\* 0, +-1, +-5, +-6, +-39, +-40 and +-45: both sides of the 5 px flag
\* threshold and of the 40 px commit threshold.
Positions == {0, 39, 40, 45}
ItemCounts == 0..MaxItems
\* Item counts a replaced collection may have: one more than at creation, so
\* that a change between two counts of at least three occurs.
NewItemCounts == 0..(MaxItems + 1)
GoToArgs == (0 - MaxGoTo)..MaxGoTo
\* Layout props of CarouselView: even widths on both sides of the 640 px
\* breakpoint.
CardWidths == {200, 300}
Spacings == {0, 16}
ViewportWidths == {320, 640, 1024}
InnerWidths == {320, 1024}
\* Cards shown side by side: the denominators of the sizes "1/1", "1/2"
\* and "2/3" (Carousel.tsx:41-49 and 97).
VisibleCounts == 1..3

\* A prop that was not passed (undefined), a width not measured yet (null).
Undefined == 0 - 1
\* A size string, as the parts size.split("/") gives: "1/3" is <<"1", "3">>,
\* "3" is <<"3">>, "/2" is <<"", "2">>, "x" stands for text that is no number.
DEFAULT_SIZE == <<"1", "3">>
PropSizes ==
    {<<"1", "1">>, <<"1", "2">>, <<"1", "3">>, <<"2", "3">>, <<"1", "4">>,
     <<"1", "0">>, <<"x", "2">>, <<"1", "x">>, <<"3">>, <<"", "2">>,
     <<"1", "">>, <<"1", "2", "3">>}
\* screen.width of useScreen: 0 while it is not available, else both sides
\* of each breakpoint.
ScreenWidths == {0, 639, 640, 767, 768, 1023, 1024}
\* offsetWidth of the container once measured.
ContainerWidths == {320, 700, 800, 1024}
PropSpacings == {0, 16}
\* Values of the minDragDistance prop: none at all and the default.
MinDragDistances == {0, MIN_DRAG_DISTANCE}
PropCardWidths == {Undefined, 0, 200}

VARIABLES
    \* CarouselState (CarouselViewModel.ts:16-24)
    currentIndex, isDragging, dragStartX, dragOffset,
    isAutoPlaying, isHovered, hasDragged,
    \* props of the hook
    totalItems, minDragDistance,
    \* timers of the hook
    autoSlideTimerRef,      \* handle held by the ref, NoTimer for null
    activeTimers,           \* handles of the intervals that are running
    pendingResets,          \* setTimeout callbacks of handleDragEnd not yet fired
    \* CarouselView
    isMouseDownRef, disableTransition, prevIndexRef,
    pendingRaf,             \* requestAnimationFrame callbacks not yet fired
    \* the clock of the running interval: part of its period has elapsed
    timerElapsed,
    \* lifecycle
    mounted,
    \* history: the last operation, the currentIndex it read (0 if it reads
    \* none) and its numeric input (0 if it has none)
    lastOp, lastIndex, lastArg,
    touched,                \* an input has been received since creation
    \* layout: props and measurements of Carousel (Carousel.tsx:16-26) ...
    propSize, propSpacing, propCardWidth, screenWidth, containerWidth,
    \* ... and what a render derives from them: the effective size string
    \* and the card width, a fraction [num, den] with den > 0
    size, calculatedCardWidth

storeVars == <<currentIndex, isDragging, dragStartX, dragOffset,
               isAutoPlaying, isHovered, hasDragged>>
propVars == <<totalItems, minDragDistance>>
timerVars == <<autoSlideTimerRef, activeTimers>>
viewVars == <<isMouseDownRef, disableTransition, prevIndexRef, pendingRaf>>
histVars == <<lastOp, lastIndex, lastArg, touched>>
layoutVars == <<propSize, propSpacing, propCardWidth, screenWidth,
                containerWidth, size, calculatedCardWidth>>
vars == <<storeVars, propVars, timerVars, pendingResets, viewVars, mounted,
          histVars, layoutVars, timerElapsed>>

(***************************************************************************)
(* Arithmetic as JavaScript computes it.                                   *)
(***************************************************************************)
Abs(x) == IF x < 0 THEN 0 - x ELSE x

\* a % b of JavaScript for b > 0: the result has the sign of the dividend.
\* x % 0 is NaN, and so is every remainder computed from NaN; NaN is
\* represented by a number no index computation reaches.
NaN == 0 - 1000
JsRem(a, b) ==
    IF b = 0 \/ a = NaN THEN NaN
    ELSE IF a >= 0 THEN a % b ELSE 0 - ((0 - a) % b)

(***************************************************************************)
(* Pure parts of the view model.                                           *)
(***************************************************************************)
normalizedIndexOfAbs(index, total) == JsRem(Abs(index), total)
normalizedIndexNoWrap(index, total) == JsRem(index, total)
normalizedIndex(index, total) == JsRem(JsRem(index, total) + total, total)

nextIndexOffByOne(cur, total) == JsRem(cur + 1, total + 1)
nextIndex(cur, total) == JsRem(cur + 1, total)
prevIndexNoWrap(cur, total) == JsRem(cur - 1, total)
prevIndex(cur, total) == JsRem(cur - 1 + total, total)

\* handleDragEnd, lines 113-122: the index a release at `offset` commits to.
shouldCommitStrict(offset, minDist) == Abs(offset) > minDist
shouldCommit(offset, minDist) == Abs(offset) >= minDist

dragEndIndexInverted(cur, offset, total, minDist) ==
    IF shouldCommit(offset, minDist)
    THEN IF offset > 0 THEN nextIndex(cur, total) ELSE prevIndex(cur, total)
    ELSE cur
dragEndIndex(cur, offset, total, minDist) ==
    IF shouldCommit(offset, minDist)
    THEN IF offset > 0 THEN prevIndex(cur, total) ELSE nextIndex(cur, total)
    ELSE cur

\* handleDragMove, lines 95 and 99.
movedFlag(offset) == Abs(offset) > DRAG_FLAG_THRESHOLD
hasDraggedAfterMove(had, offset) == had \/ movedFlag(offset)

\* handleDragStart, line 85.
autoPlayAtDragStartKept(playing) == playing
autoPlayAtDragStart(playing) == FALSE

\* handleDragEnd, line 140.
autoPlayAfterDragEndAlways(hovered) == TRUE
autoPlayAfterDragEnd(hovered) == ~hovered

\* setHovered, line 163.
autoPlayAfterHoverAlways(hovered, dragging) == ~dragging
autoPlayAfterHoverKeepsOff(hovered, dragging) ==
    IF hovered THEN FALSE ELSE (~dragging /\ isAutoPlaying)
autoPlayAfterHover(hovered, dragging) == IF hovered THEN FALSE ELSE ~dragging

\* toggleAutoPlay, line 149.
shouldPlayUngated(enable, hovered, dragging) == enable
shouldPlay(enable, hovered, dragging) == enable /\ ~hovered /\ ~dragging

\* auto-slide effect, line 178.
shouldRunIgnoringAutoPlay(playing, dragging, hovered) == ~dragging /\ ~hovered
shouldRun(playing, dragging, hovered) == playing /\ ~dragging /\ ~hovered

\* clearInterval(autoSlideTimerRef.current) under its null test, lines 172-175
\* and 187-190: the intervals still running afterwards.
clearedTimersLeak(ref, timers) == timers
clearedTimers(ref, timers) == IF ref # NoTimer THEN timers \ {ref} ELSE timers

\* The handle window.setInterval returns: one that no running interval has.
freshTimer(timers) ==
    CHOOSE t \in 1..(Cardinality(timers) + 1) :
        /\ t \notin timers
        /\ \A u \in 1..(t - 1) : u \in timers

\* CarouselView.tsx, lines 238-243.
jumped(prev, cur, total) ==
    \/ (prev = total - 1 /\ cur = 0)
    \/ (prev = 0 /\ cur = total - 1)

\* Carousel.tsx, line 149: below three items only the fallback is rendered,
\* so neither the view nor the controls, dots and hover handlers exist.
viewRendered == mounted /\ totalItems >= MIN_ITEMS

\* CarouselView.tsx, line 280.
transitionEnabled == ~(isDragging \/ disableTransition)

\* CarouselCard.handleClick (Carousel.tsx:274-279): the click reaches onClick,
\* which opens the landing page.
clickOpens(dragging, dragged) == ~dragging /\ ~dragged

(***************************************************************************)
(* Layout of Carousel (Carousel.tsx:28-101).                               *)
(***************************************************************************)
\* Number(part) for the parts used here; Number("") is 0.
NumberOf(part) ==
    CASE part = "" -> 0
      [] part = "0" -> 0
      [] part = "1" -> 1
      [] part = "2" -> 2
      [] part = "3" -> 3
      [] part = "4" -> 4
      [] OTHER -> NaN

\* Element k of size.split("/").map(Number) as isNaN sees it: a missing
\* element is undefined, which isNaN takes for NaN.
parsedPart(sizeParts, k) ==
    IF Len(sizeParts) >= k THEN NumberOf(sizeParts[k]) ELSE NaN

\* `if (cardWidth)`: undefined and 0 are falsy.
isTruthy(width) == width # Undefined /\ width # 0

\* responsiveSize, lines 29-54.
responsiveSizeInclusive(cardWidthProp, sizeProp, screen) ==
    IF isTruthy(cardWidthProp) THEN sizeProp
    ELSE IF ~isTruthy(screen) THEN sizeProp
    ELSE IF screen <= BREAKPOINT_MOBILE THEN <<"1", "1">>
    ELSE IF screen <= BREAKPOINT_SMALL_TABLET THEN <<"2", "3">>
    ELSE IF screen <= BREAKPOINT_TABLET THEN <<"1", "2">>
    ELSE sizeProp
responsiveSize(cardWidthProp, sizeProp, screen) ==
    IF isTruthy(cardWidthProp) THEN sizeProp
    ELSE IF ~isTruthy(screen) THEN sizeProp
    ELSE IF screen < BREAKPOINT_MOBILE THEN <<"1", "1">>
    ELSE IF screen < BREAKPOINT_SMALL_TABLET THEN <<"2", "3">>
    ELSE IF screen < BREAKPOINT_TABLET THEN <<"1", "2">>
    ELSE sizeProp

\* viewportWidth, line 83, with the viewportWidth prop at its default.
viewportWidthOf(container) ==
    IF container # Undefined THEN container ELSE DEFAULT_VIEWPORT_WIDTH

\* calculatedCardWidth, lines 88-101, as an exact fraction.
cardWidthOfGapPerCard(cardWidthProp, sizeParts, gap, viewport) ==
    IF cardWidthProp # Undefined THEN [num |-> cardWidthProp, den |-> 1]
    ELSE LET numerator == parsedPart(sizeParts, 1)
             denominator == parsedPart(sizeParts, 2)
         IN  IF numerator = NaN \/ denominator = NaN \/ denominator = 0
             THEN [num |-> DEFAULT_CARD_WIDTH, den |-> 1]
             ELSE [num |-> viewport - gap * denominator, den |-> denominator]
cardWidthOfAnyNumerator(cardWidthProp, sizeParts, gap, viewport) ==
    IF cardWidthProp # Undefined THEN [num |-> cardWidthProp, den |-> 1]
    ELSE LET denominator == parsedPart(sizeParts, 2)
         IN  IF denominator = NaN \/ denominator = 0
             THEN [num |-> DEFAULT_CARD_WIDTH, den |-> 1]
             ELSE [num |-> viewport - gap * (denominator - 1),
                   den |-> denominator]
cardWidthOf(cardWidthProp, sizeParts, gap, viewport) ==
    IF cardWidthProp # Undefined THEN [num |-> cardWidthProp, den |-> 1]
    ELSE LET numerator == parsedPart(sizeParts, 1)
             denominator == parsedPart(sizeParts, 2)
         IN  IF numerator = NaN \/ denominator = NaN \/ denominator = 0
             THEN [num |-> DEFAULT_CARD_WIDTH, den |-> 1]
             ELSE [num |-> viewport - gap * (denominator - 1),
                   den |-> denominator]

\* What a render of Carousel derives from the layout inputs.
Rendered(cardWidthProp, sizeProp, gap, screen, container, effective, width) ==
    /\ effective = responsiveSize(cardWidthProp, sizeProp, screen)
    /\ width = cardWidthOf(cardWidthProp, effective, gap,
                           viewportWidthOf(container))

(***************************************************************************)
(* What is rendered.  Items are named by their logical index; slot k of    *)
(* the rendered array (counted from 0, as in the code) is element k + 1 of *)
(* the sequence.                                                           *)
(***************************************************************************)
\* CarouselView.tsx, lines 44-52.
duplicatedItems(n) ==
    IF n > 0
    THEN <<n - 1>> \o [i \in 1..n |-> i - 1] \o <<0>>
             \o <<IF n > 1 THEN 1 ELSE 0>>
    ELSE <<>>

\* The cards on screen: none under the fallback of Carousel.tsx:149-155,
\* else one per element of duplicatedItems (CarouselView.tsx:284).
renderedCardsUnvalidated ==
    IF mounted THEN duplicatedItems(totalItems) ELSE <<>>
renderedCards ==
    IF mounted /\ totalItems >= MIN_ITEMS THEN duplicatedItems(totalItems)
    ELSE <<>>

\* The fallback text of Carousel.tsx:149-155 is what is shown.
fallbackShown == mounted /\ totalItems < MIN_ITEMS

\* CarouselView.tsx, line 80.
isDesktop(viewportWidth, innerWidth) ==
    viewportWidth >= DESKTOP_MIN_WIDTH \/ innerWidth >= DESKTOP_MIN_WIDTH

\* CarouselView.tsx, lines 95-104.
currentCardLeftPositionFromZero(cur, total, cardWithSpacing) ==
    IF cur = total - 1 THEN 0 ELSE (cur + 1) * cardWithSpacing
currentCardLeftPosition(cur, total, cardWithSpacing) ==
    IF cur = total - 1 THEN total * cardWithSpacing
    ELSE (cur + 1) * cardWithSpacing

\* getTransform, CarouselView.tsx:83-122: the pixels of translateX.  Widths
\* are even numbers here, so the halves of line 107 are exact.
getTransform(cur, total, offset, cardWidth, spacing, viewportWidth, desktop) ==
    IF total = 0 THEN 0
    ELSE IF desktop
    THEN (0 - currentCardLeftPosition(cur, total, cardWidth + spacing))
             + ((viewportWidth \div 2) - (cardWidth \div 2)) + offset
    ELSE (0 - (cur + 1) * (cardWidth + spacing)) + offset

\* isCenter of slot `index`, CarouselView.tsx:286-297.
isCenter(index, cur, total, desktop) ==
    /\ desktop
    /\ IF cur = total - 1 THEN index = total ELSE index = cur + 1

(***************************************************************************)
(* Effects, run after the render that follows a state update.  They read   *)
(* the primed store variables, so they come last in an action.             *)
(***************************************************************************)
\* Auto-slide effect (CarouselViewModel.ts:168-198).  It reruns when one of
\* its dependencies changed (autoSlideInterval is fixed here): first the
\* cleanup the previous run returned, if it returned one, then the body.
AutoSlideDepsChangedWithIndex ==
    <<isAutoPlaying', isDragging', isHovered', totalItems', currentIndex'>>
        # <<isAutoPlaying, isDragging, isHovered, totalItems, currentIndex>>

\* The dependency list of the auto-slide effect, lines 192-198.
AutoSlideDepsChanged ==
    <<isAutoPlaying', isDragging', isHovered', totalItems'>>
        # <<isAutoPlaying, isDragging, isHovered, totalItems>>

AutoSlideEffect ==
    IF AutoSlideDepsChanged
    THEN LET hadCleanup == totalItems # 0
             afterCleanup == IF hadCleanup
                             THEN clearedTimers(autoSlideTimerRef, activeTimers)
                             ELSE activeTimers
             refAfterCleanup == IF hadCleanup THEN NoTimer
                                ELSE autoSlideTimerRef
             afterClear == clearedTimers(refAfterCleanup, afterCleanup)
         IN  IF totalItems' = 0
             THEN /\ autoSlideTimerRef' = refAfterCleanup
                  /\ activeTimers' = afterCleanup
             ELSE IF shouldRun(isAutoPlaying', isDragging', isHovered')
             THEN /\ autoSlideTimerRef' = freshTimer(afterClear)
                  /\ activeTimers' = afterClear \cup {freshTimer(afterClear)}
             ELSE /\ autoSlideTimerRef' = NoTimer
                  /\ activeTimers' = afterClear
    ELSE UNCHANGED timerVars

\* Infinite-loop effect (CarouselView.tsx:229-255) of a view that stays
\* mounted.
WrapEffect ==
    IF viewRendered
       /\ <<currentIndex', isDragging', dragOffset', totalItems'>>
              # <<currentIndex, isDragging, dragOffset, totalItems>>
       /\ ~(totalItems' = 0 \/ isDragging' \/ dragOffset' # 0)
    THEN /\ IF jumped(prevIndexRef, currentIndex', totalItems')
            THEN /\ disableTransition' = TRUE
                 /\ pendingRaf' = pendingRaf + 1
            ELSE UNCHANGED <<disableTransition, pendingRaf>>
         /\ prevIndexRef' = currentIndex'
    ELSE UNCHANGED <<disableTransition, prevIndexRef, pendingRaf>>

Effects == AutoSlideEffect /\ WrapEffect /\ pendingRaf' <= MaxPendingRaf

\* The effects of the view with up to MaxQueuedRaf animation-frame
\* callbacks requested and not yet fired.
EffectsQueued == AutoSlideEffect /\ WrapEffect /\ pendingRaf' <= MaxQueuedRaf

\* What the history variables record of a step.  No event of the carousel
\* changes the layout inputs.  Time is left out of every specification but
\* TimerSpec: there timerElapsed stays FALSE.
Hist(op, readIndex, arg, isInput) ==
    /\ UNCHANGED <<layoutVars, timerElapsed>>
    /\ lastOp' = op
    /\ lastIndex' = readIndex
    /\ lastArg' = arg
    /\ touched' = (touched \/ isInput)

(***************************************************************************)
(* Initial state: the component has mounted and its effects have run.      *)
(***************************************************************************)
InitCarousel ==
    /\ totalItems \in ItemCounts
    /\ minDragDistance = MIN_DRAG_DISTANCE
    /\ currentIndex = 0
    /\ isDragging = FALSE
    /\ dragStartX = 0
    /\ dragOffset = 0
    /\ isAutoPlaying = TRUE
    /\ isHovered = FALSE
    /\ hasDragged = FALSE
    /\ autoSlideTimerRef = IF totalItems = 0 THEN NoTimer ELSE freshTimer({})
    /\ activeTimers = IF totalItems = 0 THEN {} ELSE {freshTimer({})}
    /\ pendingResets = 0
    /\ isMouseDownRef = FALSE
    /\ disableTransition = FALSE
    /\ prevIndexRef = 0
    /\ pendingRaf = 0
    /\ timerElapsed = FALSE
    /\ mounted = TRUE
    /\ lastOp = "init"
    /\ lastIndex = 0
    /\ lastArg = 0
    /\ touched = FALSE

\* The layout props at their defaults on a wide screen.
InitLayout ==
    /\ propSize = DEFAULT_SIZE
    /\ propSpacing = 0
    /\ propCardWidth = Undefined
    /\ screenWidth = BREAKPOINT_TABLET
    /\ containerWidth = BREAKPOINT_TABLET
    /\ Rendered(propCardWidth, propSize, propSpacing, screenWidth,
                containerWidth, size, calculatedCardWidth)

Init == InitCarousel /\ InitLayout

(***************************************************************************)
(* State updates of the view model (the setState updaters).                *)
(***************************************************************************)
goToSlideKeepsOffset(index) ==
    IF totalItems = 0
    THEN UNCHANGED storeVars
    ELSE /\ currentIndex' = normalizedIndex(index, totalItems)
         /\ UNCHANGED <<isDragging, dragStartX, dragOffset, isAutoPlaying,
                        isHovered, hasDragged>>

\* goToSlide, lines 31-42.
goToSlide(index) ==
    IF totalItems = 0
    THEN UNCHANGED storeVars
    ELSE /\ currentIndex' = normalizedIndex(index, totalItems)
         /\ dragOffset' = 0
         /\ UNCHANGED <<isDragging, dragStartX, isAutoPlaying, isHovered,
                        hasDragged>>

nextSlideEndsDrag ==
    IF totalItems = 0
    THEN UNCHANGED storeVars
    ELSE /\ currentIndex' = nextIndex(currentIndex, totalItems)
         /\ dragOffset' = 0
         /\ isDragging' = FALSE
         /\ UNCHANGED <<dragStartX, isAutoPlaying, isHovered, hasDragged>>

\* nextSlide, lines 45-55.
nextSlide ==
    IF totalItems = 0
    THEN UNCHANGED storeVars
    ELSE /\ currentIndex' = nextIndex(currentIndex, totalItems)
         /\ dragOffset' = 0
         /\ UNCHANGED <<isDragging, dragStartX, isAutoPlaying, isHovered,
                        hasDragged>>

\* prevSlide, lines 65-75.
prevSlide ==
    IF totalItems = 0
    THEN UNCHANGED storeVars
    ELSE /\ currentIndex' = prevIndex(currentIndex, totalItems)
         /\ dragOffset' = 0
         /\ UNCHANGED <<isDragging, dragStartX, isAutoPlaying, isHovered,
                        hasDragged>>

\* handleDragStart, lines 78-87.
handleDragStart(x) ==
    /\ isDragging' = TRUE
    /\ dragStartX' = x
    /\ dragOffset' = 0
    /\ hasDragged' = FALSE
    /\ isAutoPlaying' = autoPlayAtDragStart(isAutoPlaying)
    /\ UNCHANGED <<currentIndex, isHovered>>

\* handleDragMove, lines 90-102.
handleDragMove(x) ==
    IF ~isDragging
    THEN UNCHANGED storeVars
    ELSE /\ dragOffset' = x - dragStartX
         /\ hasDragged' = hasDraggedAfterMove(hasDragged, x - dragStartX)
         /\ UNCHANGED <<currentIndex, isDragging, dragStartX, isAutoPlaying,
                        isHovered>>

handleDragEndNoReset ==
    IF ~isDragging
    THEN UNCHANGED <<storeVars, pendingResets>>
    ELSE /\ currentIndex' = dragEndIndex(currentIndex, dragOffset, totalItems,
                                         minDragDistance)
         /\ isDragging' = FALSE
         /\ dragOffset' = 0
         /\ isAutoPlaying' = autoPlayAfterDragEnd(isHovered)
         /\ UNCHANGED <<dragStartX, isHovered, hasDragged, pendingResets>>

handleDragEndUnguarded ==
    /\ currentIndex' = dragEndIndex(currentIndex, dragOffset, totalItems,
                                    minDragDistance)
    /\ pendingResets' = IF hasDragged THEN pendingResets + 1
                        ELSE pendingResets
    /\ pendingResets' <= MaxPendingResets
    /\ isDragging' = FALSE
    /\ dragOffset' = 0
    /\ isAutoPlaying' = autoPlayAfterDragEnd(isHovered)
    /\ UNCHANGED <<dragStartX, isHovered, hasDragged>>

\* handleDragEnd, lines 105-143, with the setTimeout it schedules.
handleDragEnd ==
    IF ~isDragging
    THEN UNCHANGED <<storeVars, pendingResets>>
    ELSE /\ currentIndex' = dragEndIndex(currentIndex, dragOffset, totalItems,
                                         minDragDistance)
         /\ pendingResets' = IF hasDragged THEN pendingResets + 1
                             ELSE pendingResets
         /\ pendingResets' <= MaxPendingResets
         /\ isDragging' = FALSE
         /\ dragOffset' = 0
         /\ isAutoPlaying' = autoPlayAfterDragEnd(isHovered)
         /\ UNCHANGED <<dragStartX, isHovered, hasDragged>>

\* toggleAutoPlay, lines 146-155.
toggleAutoPlay(enable) ==
    /\ isAutoPlaying' = shouldPlay(enable, isHovered, isDragging)
    /\ UNCHANGED <<currentIndex, isDragging, dragStartX, dragOffset, isHovered,
                   hasDragged>>

\* setHovered, lines 158-165.
setHovered(hovered) ==
    /\ isHovered' = hovered
    /\ isAutoPlaying' = autoPlayAfterHover(hovered, isDragging)
    /\ UNCHANGED <<currentIndex, isDragging, dragStartX, dragOffset,
                   hasDragged>>

(***************************************************************************)
(* Gesture handlers of the view (CarouselView.tsx:124-143).                *)
(***************************************************************************)
handleStartWithoutRef(x) ==
    /\ handleDragStart(x)
    /\ UNCHANGED <<isMouseDownRef, pendingResets>>

handleStart(x) ==
    /\ isMouseDownRef' = TRUE
    /\ handleDragStart(x)
    /\ UNCHANGED pendingResets

handleMove(x) ==
    /\ isMouseDownRef
    /\ handleDragMove(x)
    /\ UNCHANGED <<isMouseDownRef, pendingResets>>

handleEndRefOnly ==
    /\ isMouseDownRef
    /\ isMouseDownRef' = FALSE
    /\ UNCHANGED <<storeVars, pendingResets>>

handleEnd ==
    /\ isMouseDownRef
    /\ isMouseDownRef' = FALSE
    /\ handleDragEnd

(***************************************************************************)
(* Actions: one per event or callback.                                     *)
(***************************************************************************)
\* The interval callback, lines 179-182: nextSlideRef.current().
Tick ==
    /\ \E t \in activeTimers : TRUE
    /\ IF mounted THEN nextSlide ELSE UNCHANGED storeVars
    /\ UNCHANGED <<propVars, pendingResets, isMouseDownRef, mounted>>
    /\ Effects
    /\ Hist("tick", currentIndex, 0, FALSE)

\* CarouselControls onNext / onPrev (Carousel.tsx:182-185).
OnNext ==
    /\ viewRendered
    /\ nextSlide
    /\ UNCHANGED <<propVars, pendingResets, isMouseDownRef, mounted>>
    /\ Effects
    /\ Hist("next", currentIndex, 0, TRUE)

OnPrev ==
    /\ viewRendered
    /\ prevSlide
    /\ UNCHANGED <<propVars, pendingResets, isMouseDownRef, mounted>>
    /\ Effects
    /\ Hist("prev", currentIndex, 0, TRUE)

\* goToSlide as the view model exposes it: any integer.
GoTo ==
    /\ viewRendered
    /\ \E i \in GoToArgs : goToSlide(i) /\ Hist("goTo", 0, i, TRUE)
    /\ UNCHANGED <<propVars, pendingResets, isMouseDownRef, mounted>>
    /\ Effects

\* mousedown (CarouselView.tsx:150-153) and touchstart (190-195).
MouseDown ==
    /\ viewRendered
    /\ \E x \in Positions : handleStart(x) /\ Hist("dragStart", 0, x, TRUE)
    /\ UNCHANGED <<propVars, mounted>>
    /\ Effects

TouchStart ==
    /\ viewRendered
    /\ \E x \in Positions : handleStart(x) /\ Hist("dragStart", 0, x, TRUE)
    /\ UNCHANGED <<propVars, mounted>>
    /\ Effects

\* mousemove (155-160) and touchmove (197-205).
MouseMove ==
    /\ viewRendered
    /\ \E x \in Positions : handleMove(x) /\ Hist("dragMove", 0, x, TRUE)
    /\ UNCHANGED <<propVars, mounted>>
    /\ Effects

TouchMove ==
    /\ viewRendered
    /\ \E x \in Positions : handleMove(x) /\ Hist("dragMove", 0, x, TRUE)
    /\ UNCHANGED <<propVars, mounted>>
    /\ Effects

\* mouseup (162-164), mouseleave (166-170), touchend and touchcancel (207-218).
MouseUp ==
    /\ viewRendered
    /\ handleEnd
    /\ UNCHANGED <<propVars, mounted>>
    /\ Effects
    /\ Hist("dragEnd", currentIndex, dragOffset, TRUE)

MouseLeave ==
    /\ viewRendered
    /\ isMouseDownRef
    /\ handleEnd
    /\ UNCHANGED <<propVars, mounted>>
    /\ Effects
    /\ Hist("dragEnd", currentIndex, dragOffset, TRUE)

TouchEnd ==
    /\ viewRendered
    /\ handleEnd
    /\ UNCHANGED <<propVars, mounted>>
    /\ Effects
    /\ Hist("dragEnd", currentIndex, dragOffset, TRUE)

TouchCancel ==
    /\ viewRendered
    /\ handleEnd
    /\ UNCHANGED <<propVars, mounted>>
    /\ Effects
    /\ Hist("dragEnd", currentIndex, dragOffset, TRUE)

\* onMouseEnter / onMouseLeave of the container (Carousel.tsx:134-140).
HoverEnter ==
    /\ viewRendered
    /\ setHovered(TRUE)
    /\ UNCHANGED <<propVars, pendingResets, isMouseDownRef, mounted>>
    /\ Effects
    /\ Hist("hoverEnter", 0, 0, TRUE)

HoverLeave ==
    /\ viewRendered
    /\ setHovered(FALSE)
    /\ UNCHANGED <<propVars, pendingResets, isMouseDownRef, mounted>>
    /\ Effects
    /\ Hist("hoverLeave", 0, 0, TRUE)

\* toggleAutoPlay as the view model exposes it.
SetAutoPlay ==
    /\ viewRendered
    /\ \E enable \in BOOLEAN :
           /\ toggleAutoPlay(enable)
           /\ Hist("setAutoPlay", 0, IF enable THEN 1 ELSE 0, TRUE)
    /\ UNCHANGED <<propVars, pendingResets, isMouseDownRef, mounted>>
    /\ Effects

\* The timeout of handleDragEnd fires (lines 126-131).
ResetFire ==
    /\ pendingResets > 0
    /\ pendingResets' = pendingResets - 1
    /\ hasDragged' = IF mounted THEN FALSE ELSE hasDragged
    /\ UNCHANGED <<currentIndex, isDragging, dragStartX, dragOffset,
                   isAutoPlaying, isHovered>>
    /\ UNCHANGED <<propVars, timerVars, viewVars, mounted>>
    /\ Hist("resetFire", 0, 0, FALSE)

\* The requestAnimationFrame callback fires (CarouselView.tsx:248-251).
RafFire ==
    /\ pendingRaf > 0
    /\ pendingRaf' = pendingRaf - 1
    /\ disableTransition' = IF viewRendered THEN FALSE ELSE disableTransition
    /\ UNCHANGED <<storeVars, propVars, timerVars, pendingResets,
                   isMouseDownRef, prevIndexRef, mounted>>
    /\ Hist("rafFire", 0, 0, FALSE)

UnmountWithoutCleanup ==
    /\ mounted
    /\ mounted' = FALSE
    /\ UNCHANGED <<storeVars, propVars, timerVars, pendingResets, viewVars>>
    /\ Hist("unmount", 0, 0, TRUE)

\* The component unmounts: the cleanup of the auto-slide effect runs
\* (lines 186-191); nothing else is cancelled.
Unmount ==
    /\ mounted
    /\ mounted' = FALSE
    /\ activeTimers' = clearedTimers(autoSlideTimerRef, activeTimers)
    /\ autoSlideTimerRef' = NoTimer
    /\ UNCHANGED <<storeVars, propVars, pendingResets, viewVars>>
    /\ Hist("unmount", 0, 0, TRUE)

Next ==
    \/ Tick
    \/ OnNext
    \/ OnPrev
    \/ GoTo
    \/ MouseDown
    \/ TouchStart
    \/ MouseMove
    \/ TouchMove
    \/ MouseUp
    \/ MouseLeave
    \/ TouchEnd
    \/ TouchCancel
    \/ HoverEnter
    \/ HoverLeave
    \/ SetAutoPlay
    \/ ResetFire
    \/ RafFire
    \/ Unmount

\* The parent passes an item collection of another length.  The hook's
\* state is kept as it is; the auto-slide effect reruns; CarouselView is
\* unmounted when the count drops below three and mounted anew, with fresh
\* refs and state, when it reaches three again (Carousel.tsx:148-155).
\* Animation-frame callbacks of an unmounted view address that view only
\* and are dropped here.
SetItems ==
    /\ mounted
    /\ \E n \in NewItemCounts \ {totalItems} : totalItems' = n
    /\ UNCHANGED <<storeVars, minDragDistance, pendingResets, mounted>>
    /\ AutoSlideEffect
    /\ IF totalItems >= MIN_ITEMS /\ totalItems' >= MIN_ITEMS
       THEN WrapEffect /\ UNCHANGED isMouseDownRef
       ELSE IF totalItems' >= MIN_ITEMS
       THEN /\ isMouseDownRef' = FALSE
            /\ prevIndexRef' = currentIndex
            /\ disableTransition' =
                   (~(isDragging \/ dragOffset # 0)
                    /\ jumped(currentIndex, currentIndex, totalItems'))
            /\ pendingRaf' = IF disableTransition' THEN 1 ELSE 0
       ELSE /\ isMouseDownRef' = FALSE
            /\ prevIndexRef' = 0
            /\ disableTransition' = FALSE
            /\ pendingRaf' = 0
    /\ pendingRaf' <= MaxPendingRaf
    /\ Hist("setItems", 0, 0, TRUE)

NextWithProps == Next \/ SetItems

\* The parent passes another minDragDistance (Carousel.tsx:20 and 102-106).
\* handleDragEnd is created anew with it; no state changes.
SetMinDragDistance ==
    /\ mounted
    /\ minDragDistance' \in MinDragDistances \ {minDragDistance}
    /\ UNCHANGED <<storeVars, totalItems, timerVars, pendingResets, viewVars,
                   mounted>>
    /\ Hist("setMinDragDistance", 0, minDragDistance', TRUE)

NextWithDistance == Next \/ SetMinDragDistance

\* The carousel with the drag threshold changed at run time.
DistanceSpec == Init /\ [][NextWithDistance]_vars

Spec == Init /\ [][Next]_vars

\* The same with the item collection replaced at run time.
PropsSpec == Init /\ [][NextWithProps]_vars

\* A card is clicked (Carousel.tsx:274-279 and 288).  The click changes no
\* state; lastArg records whether handleClick opened the landing page (1)
\* or swallowed the click (0).
Click ==
    /\ viewRendered
    /\ UNCHANGED <<storeVars, propVars, timerVars, pendingResets, viewVars,
                   mounted>>
    /\ Hist("click", 0, IF clickOpens(isDragging, hasDragged) THEN 1 ELSE 0,
            TRUE)

NextWithClick == Next \/ Click

\* The carousel with card clicks.
ClickSpec == Init /\ [][NextWithClick]_vars

(***************************************************************************)
(* The view model used on its own: the functions useCarouselViewModel      *)
(* returns (CarouselViewModel.ts:200-211), called by any host, for any     *)
(* item count.  No CarouselView exists, so the view's variables keep their *)
(* initial values and only the auto-slide effect runs.                     *)
(***************************************************************************)
HookEffects == UNCHANGED <<propVars, viewVars, mounted>> /\ AutoSlideEffect

HookGoTo ==
    /\ mounted
    /\ \E i \in GoToArgs : goToSlide(i) /\ Hist("goTo", 0, i, TRUE)
    /\ UNCHANGED pendingResets
    /\ HookEffects

HookNext ==
    /\ mounted
    /\ nextSlide
    /\ UNCHANGED pendingResets
    /\ HookEffects
    /\ Hist("next", currentIndex, 0, TRUE)

HookPrev ==
    /\ mounted
    /\ prevSlide
    /\ UNCHANGED pendingResets
    /\ HookEffects
    /\ Hist("prev", currentIndex, 0, TRUE)

HookDragStart ==
    /\ mounted
    /\ \E x \in Positions : handleDragStart(x) /\ Hist("dragStart", 0, x, TRUE)
    /\ UNCHANGED pendingResets
    /\ HookEffects

HookDragMove ==
    /\ mounted
    /\ \E x \in Positions : handleDragMove(x) /\ Hist("dragMove", 0, x, TRUE)
    /\ UNCHANGED pendingResets
    /\ HookEffects

\* handleDragEnd called with or without an active drag; the history tells
\* the two apart.
HookDragEnd ==
    /\ mounted
    /\ handleDragEnd
    /\ HookEffects
    /\ Hist(IF isDragging THEN "dragEnd" ELSE "dragEndIdle",
            currentIndex, dragOffset, TRUE)

HookToggleAutoPlay ==
    /\ mounted
    /\ \E enable \in BOOLEAN :
           /\ toggleAutoPlay(enable)
           /\ Hist("setAutoPlay", 0, IF enable THEN 1 ELSE 0, TRUE)
    /\ UNCHANGED pendingResets
    /\ HookEffects

HookSetHovered ==
    /\ mounted
    /\ \E hovered \in BOOLEAN :
           /\ setHovered(hovered)
           /\ Hist(IF hovered THEN "hoverEnter" ELSE "hoverLeave", 0, 0, TRUE)
    /\ UNCHANGED pendingResets
    /\ HookEffects

\* The interval callback, lines 179-182.
HookTick ==
    /\ \E t \in activeTimers : TRUE
    /\ nextSlide
    /\ UNCHANGED pendingResets
    /\ HookEffects
    /\ Hist("tick", currentIndex, 0, FALSE)

NextOfHook ==
    \/ HookGoTo
    \/ HookNext
    \/ HookPrev
    \/ HookDragStart
    \/ HookDragMove
    \/ HookDragEnd
    \/ HookToggleAutoPlay
    \/ HookSetHovered
    \/ HookTick
    \/ ResetFire

HookSpec == Init /\ [][NextOfHook]_vars

(***************************************************************************)
(* The layout on its own: a carousel of three items that receives no       *)
(* event while its props, the screen and the container change.             *)
(***************************************************************************)
InitAnyLayout ==
    /\ InitCarousel
    /\ totalItems = MIN_ITEMS
    /\ propSize \in PropSizes
    /\ propSpacing \in PropSpacings
    /\ propCardWidth \in PropCardWidths
    /\ screenWidth \in ScreenWidths
    /\ containerWidth \in ContainerWidths \cup {Undefined}
    /\ Rendered(propCardWidth, propSize, propSpacing, screenWidth,
                containerWidth, size, calculatedCardWidth)

carouselVars == <<storeVars, propVars, timerVars, pendingResets, viewVars,
                  mounted, histVars, timerElapsed>>

\* The parent renders Carousel with other size, spacing or cardWidth props.
SetLayoutProps ==
    /\ propSize' \in PropSizes
    /\ propSpacing' \in PropSpacings
    /\ propCardWidth' \in PropCardWidths
    /\ <<propSize', propSpacing', propCardWidth'>>
           # <<propSize, propSpacing, propCardWidth>>
    /\ UNCHANGED <<screenWidth, containerWidth, carouselVars>>
    /\ Rendered(propCardWidth', propSize', propSpacing', screenWidth',
                containerWidth', size', calculatedCardWidth')

\* useScreen reports another screen width (Carousel.tsx:26).
ScreenChange ==
    /\ screenWidth' \in ScreenWidths \ {screenWidth}
    /\ UNCHANGED <<propSize, propSpacing, propCardWidth, containerWidth,
                   carouselVars>>
    /\ Rendered(propCardWidth', propSize', propSpacing', screenWidth',
                containerWidth', size', calculatedCardWidth')

\* updateContainerWidth, from the mount effect or the ResizeObserver
\* (Carousel.tsx:57-80).
ContainerResize ==
    /\ containerWidth' \in ContainerWidths \ {containerWidth}
    /\ UNCHANGED <<propSize, propSpacing, propCardWidth, screenWidth,
                   carouselVars>>
    /\ Rendered(propCardWidth', propSize', propSpacing', screenWidth',
                containerWidth', size', calculatedCardWidth')

NextLayout ==
    \/ SetLayoutProps
    \/ ScreenChange
    \/ ContainerResize

LayoutSpec == InitAnyLayout /\ [][NextLayout]_vars

(***************************************************************************)
(* Wraps in quick succession: navigation and ticks only, with room for a   *)
(* second animation-frame callback while the first is still requested.     *)
(***************************************************************************)
QueuedTick ==
    /\ \E t \in activeTimers : TRUE
    /\ nextSlide
    /\ UNCHANGED <<propVars, pendingResets, isMouseDownRef, mounted>>
    /\ EffectsQueued
    /\ Hist("tick", currentIndex, 0, FALSE)

QueuedNext ==
    /\ viewRendered
    /\ nextSlide
    /\ UNCHANGED <<propVars, pendingResets, isMouseDownRef, mounted>>
    /\ EffectsQueued
    /\ Hist("next", currentIndex, 0, TRUE)

QueuedPrev ==
    /\ viewRendered
    /\ prevSlide
    /\ UNCHANGED <<propVars, pendingResets, isMouseDownRef, mounted>>
    /\ EffectsQueued
    /\ Hist("prev", currentIndex, 0, TRUE)

QueuedGoTo ==
    /\ viewRendered
    /\ \E i \in GoToArgs : goToSlide(i) /\ Hist("goTo", 0, i, TRUE)
    /\ UNCHANGED <<propVars, pendingResets, isMouseDownRef, mounted>>
    /\ EffectsQueued

NextOfFrames ==
    \/ QueuedTick
    \/ QueuedNext
    \/ QueuedPrev
    \/ QueuedGoTo
    \/ RafFire

FrameSpec == Init /\ [][NextOfFrames]_vars

(***************************************************************************)
(* The interval with its clock.  timerElapsed is FALSE when the interval   *)
(* has its full period ahead (it was just created, or it just ticked) and  *)
(* TRUE once part of the period has gone by; the callback runs only then.  *)
(***************************************************************************)
\* History of a step, and the clock after it: a rerun of the auto-slide
\* effect creates the interval anew, a tick starts its next period.
Clocked(op, readIndex, arg, isTick) ==
    /\ UNCHANGED layoutVars
    /\ lastOp' = op
    /\ lastIndex' = readIndex
    /\ lastArg' = arg
    /\ touched' = (touched \/ ~isTick)
    /\ timerElapsed' = IF AutoSlideDepsChanged \/ isTick THEN FALSE
                       ELSE timerElapsed

TimePasses ==
    /\ autoSlideTimerRef \in activeTimers
    /\ ~timerElapsed
    /\ timerElapsed' = TRUE
    /\ UNCHANGED <<storeVars, propVars, timerVars, pendingResets, viewVars,
                   mounted, touched, layoutVars>>
    /\ lastOp' = "timePasses"
    /\ lastIndex' = 0
    /\ lastArg' = 0

TimedTick ==
    /\ \E t \in activeTimers : TRUE
    /\ timerElapsed
    /\ nextSlide
    /\ UNCHANGED <<propVars, pendingResets, isMouseDownRef, mounted>>
    /\ Effects
    /\ Clocked("tick", currentIndex, 0, TRUE)

TimedNext ==
    /\ viewRendered
    /\ nextSlide
    /\ UNCHANGED <<propVars, pendingResets, isMouseDownRef, mounted>>
    /\ Effects
    /\ Clocked("next", currentIndex, 0, FALSE)

TimedPrev ==
    /\ viewRendered
    /\ prevSlide
    /\ UNCHANGED <<propVars, pendingResets, isMouseDownRef, mounted>>
    /\ Effects
    /\ Clocked("prev", currentIndex, 0, FALSE)

TimedGoTo ==
    /\ viewRendered
    /\ UNCHANGED <<propVars, pendingResets, isMouseDownRef, mounted>>
    /\ \E i \in GoToArgs : goToSlide(i) /\ Clocked("goTo", 0, i, FALSE)
    /\ Effects

TimedHoverEnter ==
    /\ viewRendered
    /\ setHovered(TRUE)
    /\ UNCHANGED <<propVars, pendingResets, isMouseDownRef, mounted>>
    /\ Effects
    /\ Clocked("hoverEnter", 0, 0, FALSE)

TimedHoverLeave ==
    /\ viewRendered
    /\ setHovered(FALSE)
    /\ UNCHANGED <<propVars, pendingResets, isMouseDownRef, mounted>>
    /\ Effects
    /\ Clocked("hoverLeave", 0, 0, FALSE)

TimedSetAutoPlay ==
    /\ viewRendered
    /\ UNCHANGED <<propVars, pendingResets, isMouseDownRef, mounted>>
    /\ \E enable \in BOOLEAN :
           /\ toggleAutoPlay(enable)
           /\ Clocked("setAutoPlay", 0, IF enable THEN 1 ELSE 0, FALSE)
    /\ Effects

TimedDragStart ==
    /\ viewRendered
    /\ UNCHANGED <<propVars, mounted>>
    /\ \E x \in Positions : handleStart(x) /\ Clocked("dragStart", 0, x, FALSE)
    /\ Effects

TimedDragMove ==
    /\ viewRendered
    /\ UNCHANGED <<propVars, mounted>>
    /\ \E x \in Positions : handleMove(x) /\ Clocked("dragMove", 0, x, FALSE)
    /\ Effects

TimedDragEnd ==
    /\ viewRendered
    /\ handleEnd
    /\ UNCHANGED <<propVars, mounted>>
    /\ Effects
    /\ Clocked("dragEnd", currentIndex, dragOffset, FALSE)

NextOfTimer ==
    \/ TimePasses
    \/ TimedTick
    \/ TimedNext
    \/ TimedPrev
    \/ TimedGoTo
    \/ TimedHoverEnter
    \/ TimedHoverLeave
    \/ TimedSetAutoPlay
    \/ TimedDragStart
    \/ TimedDragMove
    \/ TimedDragEnd
    \/ ResetFire
    \/ RafFire

TimerSpec == Init /\ [][NextOfTimer]_vars

\* The browser keeps delivering interval ticks, timeouts and animation
\* frames for as long as they are scheduled.  A running interval is never
\* held back in the program; here Tick is disabled only where a wrapping tick
\* would exceed MaxPendingRaf, which is why its fairness is strong.
LiveSpec ==
    /\ Spec
    /\ SF_vars(Tick)
    /\ WF_vars(ResetFire)
    /\ WF_vars(RafFire)

TypeOK ==
    /\ totalItems \in NewItemCounts
    /\ minDragDistance \in Nat
    /\ currentIndex \in Int
    /\ isDragging \in BOOLEAN /\ isAutoPlaying \in BOOLEAN
    /\ isHovered \in BOOLEAN /\ hasDragged \in BOOLEAN
    /\ dragStartX \in Positions
    /\ pendingResets \in 0..MaxPendingResets
    /\ pendingRaf \in 0..MaxQueuedRaf
    /\ timerElapsed \in BOOLEAN
    /\ isMouseDownRef \in BOOLEAN /\ disableTransition \in BOOLEAN
    /\ mounted \in BOOLEAN /\ touched \in BOOLEAN

(***************************************************************************)
(* Properties.                                                              *)
(***************************************************************************)
\* A step of handleDragEnd on an active drag.
EndDragStep == lastOp' = "dragEnd" /\ isDragging

\* C1: with N >= 3 items, currentIndex is an integer in [0, N) in every
\* state reachable by next, prev, goTo of any integer, drags, hover changes,
\* setAutoPlay and timer ticks.
C1_IndexInRange ==
    totalItems >= 3 => currentIndex \in 0..(totalItems - 1)

\* C1 witness: after a flagged drag, goTo of a negative index below -N has
\* landed on the last index.
C1_Witness ==
    /\ totalItems >= 3
    /\ lastOp = "goTo" /\ lastArg = 0 - (totalItems + 1)
    /\ currentIndex = totalItems - 1
    /\ hasDragged

C3_DragDirection ==
    /\ dragEndIndex(2, 0 - 45, 5, MIN_DRAG_DISTANCE) = 3
    /\ [][(EndDragStep /\ Abs(dragOffset) >= minDragDistance) =>
            /\ dragOffset < 0 =>
                   currentIndex' = (currentIndex + 1) % totalItems
            /\ dragOffset > 0 =>
                   currentIndex' = (currentIndex - 1 + totalItems) % totalItems
            /\ dragOffset' = 0]_vars

\* C3 witness: a release at offset -45 has moved the index one forward.
C3_Witness ==
    /\ lastOp = "dragEnd"
    /\ lastArg = 0 - 45
    /\ currentIndex = (lastIndex + 1) % totalItems
    /\ dragOffset = 0

\* C4: isAutoPlaying and isDragging are never both true.
C4_NoAutoPlayWhileDragging == ~(isAutoPlaying /\ isDragging)

\* C4 witness: the pointer has left the carousel during a drag and autoplay
\* is still off.
C4_Witness ==
    /\ isDragging
    /\ lastOp = "hoverLeave"
    /\ ~isHovered
    /\ ~isAutoPlaying

\* C5: on a live engine the interval is running exactly when N > 0 and
\* isAutoPlaying and not isDragging and not isHovered; so no tick happens
\* during a drag or while hovered.
C5_TimerIffShouldRun ==
    /\ [](mounted =>
            ((activeTimers # {}) <=>
                (totalItems > 0 /\ isAutoPlaying /\ ~isDragging /\ ~isHovered)))
    /\ [][lastOp' = "tick" => (~isDragging /\ ~isHovered)]_vars

\* C5 witness: hovered without a drag, and no interval is running.
C5_Witness ==
    /\ mounted /\ totalItems >= 3
    /\ lastOp = "hoverEnter"
    /\ isHovered /\ ~isDragging
    /\ activeTimers = {}

\* The interval the ref holds is running.
TimerRunning == autoSlideTimerRef # NoTimer /\ autoSlideTimerRef \in activeTimers

\* C6: with no input after creation and N >= 3 the interval keeps running,
\* each tick moves currentIndex to (currentIndex + 1) mod N, and every index
\* in [0, N) is visited again and again.
C6_AutoAdvanceForever ==
    /\ []((~touched /\ totalItems >= 3) => TimerRunning)
    /\ [][(lastOp' = "tick" /\ mounted /\ totalItems >= 3) =>
             currentIndex' = (currentIndex + 1) % totalItems]_vars
    /\ \A i \in 0..(MaxItems - 1) :
           []<>(touched \/ totalItems < 3 \/ i >= totalItems
                \/ currentIndex = i)

\* C6 witness: untouched, a tick has wrapped from the last index to 0.
C6_Witness ==
    /\ ~touched /\ totalItems >= 3
    /\ lastOp = "tick"
    /\ lastIndex = totalItems - 1
    /\ currentIndex = 0

\* C7: a release while not hovered, and a hover-leave while not dragging,
\* leave isAutoPlaying true with the interval running, and a tick follows
\* unless the interval is stopped again first; a release while hovered
\* leaves autoplay off, and only a hover-leave turns it on again.
C7_ResumeAfterDragAndHover ==
    /\ [][(EndDragStep /\ ~isHovered) =>
             (isAutoPlaying' /\ TimerRunning')]_vars
    /\ [][(lastOp' = "hoverLeave" /\ ~isDragging) =>
             (isAutoPlaying' /\ TimerRunning')]_vars
    /\ [][(EndDragStep /\ isHovered) =>
             (~isAutoPlaying' /\ activeTimers' = {})]_vars
    /\ [][(isHovered /\ ~isDragging /\ ~isAutoPlaying /\ isAutoPlaying') =>
             lastOp' = "hoverLeave"]_vars
    /\ (lastOp \in {"dragEnd", "hoverLeave"} /\ TimerRunning)
           ~> (lastOp = "tick" \/ activeTimers = {})

\* C7 witness: a drag has been released while not hovered and the interval
\* is running again.
C7_Witness ==
    /\ lastOp = "dragEnd"
    /\ ~isHovered /\ ~isDragging
    /\ isAutoPlaying /\ TimerRunning

\* C8: at most one interval is running, and it is the one the ref holds.
C8_AtMostOneTimer ==
    /\ Cardinality(activeTimers) <= 1
    /\ activeTimers \subseteq {autoSlideTimerRef}

\* C8 witness: after a flagged drag the item collection has been replaced,
\* the interval has been restarted and is the only one.
C8_Witness ==
    /\ lastOp = "setItems"
    /\ hasDragged /\ ~isDragging
    /\ autoSlideTimerRef # NoTimer
    /\ activeTimers = {autoSlideTimerRef}

\* A step that changes the index N-1 -> 0 or 0 -> N-1 and ends in a
\* committed state (not dragging, dragOffset 0) of a rendered view.
CommittedWrapStep ==
    /\ viewRendered
    /\ ~isDragging' /\ dragOffset' = 0
    /\ \/ (currentIndex = totalItems - 1 /\ currentIndex' = 0)
       \/ (currentIndex = 0 /\ currentIndex' = totalItems - 1)

\* C9: every committed index change N-1 -> 0 or 0 -> N-1 gives a frame with
\* the transition disabled and a pending callback that enables it again.
C9_WrapSuppressesTransition ==
    [][CommittedWrapStep => (disableTransition' /\ pendingRaf' > 0)]_vars

\* C10: hasDragged, once true, turns false only at a new startDrag or when
\* the deferred reset fires after the drag has ended.
C10_HasDraggedSticky ==
    [][(hasDragged /\ ~hasDragged') =>
          \/ lastOp' = "dragStart"
          \/ (lastOp' = "resetFire" /\ ~isDragging)]_vars

\* C11: a card click during an active drag, or directly after the release
\* of a drag whose offset exceeded 5 px, never opens the link, whatever
\* drags came before; a click before any input has been received opens it.
C11_ClickGate ==
    [][lastOp' = "click" =>
         /\ isDragging => lastArg' = 0
         /\ (lastOp = "dragEnd" /\ Abs(lastArg) > DRAG_FLAG_THRESHOLD) =>
                lastArg' = 0
         /\ ~touched => lastArg' = 1]_vars

\* C12: dragOffset is 0 whenever isDragging is false, and 0 right after
\* endDrag, next, prev, goTo and an interval tick, also in the middle of a
\* drag.
C12_DragOffsetReset ==
    /\ [](~isDragging => dragOffset = 0)
    /\ [][lastOp' \in {"dragEnd", "next", "prev", "goTo", "tick"} =>
             dragOffset' = 0]_vars

\* C12 witness: goTo was called in the middle of a flagged drag and the
\* offset is 0 while the drag is still active.
C12_Witness ==
    /\ lastOp = "goTo"
    /\ isDragging /\ hasDragged
    /\ dragOffset = 0

\* C13: goToSlide(i) sets currentIndex to the residue of i modulo N in
\* [0, N) for every integer i (with 5 items, -1 gives 4 and 7 gives 2), and
\* changes nothing when N = 0.
C13_GoToResidue ==
    /\ normalizedIndex(0 - 1, 5) = 4
    /\ normalizedIndex(7, 5) = 2
    /\ [][lastOp' = "goTo" =>
            IF totalItems = 0
            THEN UNCHANGED <<storeVars, timerVars, pendingResets>>
            ELSE /\ currentIndex' = lastArg' % totalItems
                 /\ currentIndex' \in 0..(totalItems - 1)]_vars

\* C13 witness: goToSlide(-7) with three items has landed on index 2.
C13_Witness ==
    /\ totalItems = 3
    /\ lastOp = "goTo" /\ lastArg = 0 - 7
    /\ currentIndex = 2

\* The index after k calls of nextSlide.
RECURSIVE nextTimes(_, _, _)
nextTimes(k, cur, total) ==
    IF k = 0 THEN cur ELSE nextTimes(k - 1, nextIndex(cur, total), total)

\* C14: with N >= 1, a nextSlide step is a goToSlide(currentIndex + 1) step
\* and a prevSlide step is a goToSlide(currentIndex - 1) step; prev after
\* next and next after prev restore currentIndex, and N times next returns
\* to the starting index.
C14_NextPrevAsGoTo ==
    /\ [][(lastOp' = "next" /\ totalItems >= 1) =>
             goToSlide(currentIndex + 1)]_vars
    /\ [][(lastOp' = "prev" /\ totalItems >= 1) =>
             goToSlide(currentIndex - 1)]_vars
    /\ [][(lastOp = "next" /\ lastOp' = "prev" /\ totalItems >= 1) =>
             currentIndex' = lastIndex]_vars
    /\ [][(lastOp = "prev" /\ lastOp' = "next" /\ totalItems >= 1) =>
             currentIndex' = lastIndex]_vars
    /\ [](totalItems >= 1 =>
             nextTimes(totalItems, currentIndex, totalItems) = currentIndex)

\* C14 witness: prevSlide at index 0 of three items has wrapped to index 2
\* in the middle of a drag.
C14_Witness ==
    /\ totalItems = 3
    /\ lastOp = "prev" /\ lastIndex = 0
    /\ currentIndex = 2
    /\ isDragging

\* C15: handleDragEnd called while isDragging is false changes no state
\* field, no interval and schedules no deferred reset; every handleDragEnd
\* leaves isDragging false, so a second one in a row is such a call.
C15_EndDragIdempotent ==
    /\ [][lastOp' = "dragEndIdle" =>
             UNCHANGED <<storeVars, timerVars, pendingResets>>]_vars
    /\ [][lastOp' \in {"dragEnd", "dragEndIdle"} => ~isDragging']_vars

\* C15 witness: handleDragEnd was called with no drag active, autoplay
\* switched off and a deferred reset pending; all three are as they were.
C15_Witness ==
    /\ lastOp = "dragEndIdle"
    /\ ~isDragging /\ ~isAutoPlaying /\ ~isHovered
    /\ hasDragged /\ pendingResets = 1

\* C16: mouseup, mouseleave, touchend and touchcancel during an active drag
\* each give the state of a release (threshold commit, isDragging false,
\* dragOffset 0, autoplay resumed unless hovered), and a drag is active only
\* while the pointer is down, so each of them does end it.
C16_EveryEndIsARelease ==
    /\ [](isDragging <=> isMouseDownRef)
    /\ [][((MouseUp \/ MouseLeave \/ TouchEnd \/ TouchCancel) /\ isDragging) =>
            /\ currentIndex' =
                   IF Abs(dragOffset) >= minDragDistance
                   THEN IF dragOffset > 0
                        THEN (currentIndex - 1 + totalItems) % totalItems
                        ELSE (currentIndex + 1) % totalItems
                   ELSE currentIndex
            /\ ~isDragging' /\ ~isMouseDownRef'
            /\ dragOffset' = 0
            /\ isAutoPlaying' = ~isHovered
            /\ UNCHANGED <<dragStartX, isHovered, hasDragged>>]_vars

\* C16 witness: a drag was ended at offset 40 while hovered; the index has
\* moved back by one and no drag is active.
C16_Witness ==
    /\ lastOp = "dragEnd" /\ lastArg = 40
    /\ isHovered
    /\ currentIndex = (lastIndex - 1 + totalItems) % totalItems
    /\ ~isDragging /\ ~isMouseDownRef

\* An event of the controls, the dots, the drag surface or the hover area.
InputEvent ==
    \/ OnNext \/ OnPrev \/ GoTo
    \/ MouseDown \/ TouchStart \/ MouseMove \/ TouchMove
    \/ MouseUp \/ MouseLeave \/ TouchEnd \/ TouchCancel
    \/ HoverEnter \/ HoverLeave \/ SetAutoPlay

\* C17: with fewer than 3 items the component exists, renders no card,
\* shows the fallback and accepts no input event.
C17_FallbackBelowThree ==
    (mounted /\ totalItems < 3) =>
        /\ renderedCards = <<>>
        /\ fallbackShown
        /\ ~ENABLED InputEvent

\* C17 witness: created with two items; no card is rendered.
C17_Witness ==
    /\ lastOp = "init" /\ mounted
    /\ totalItems = 2
    /\ Len(renderedCards) = 0

\* C18: with fewer than 3 items no interval is ever started and every
\* state field keeps its initial value.
C18_InertBelowThree ==
    totalItems < 3 =>
        /\ activeTimers = {} /\ autoSlideTimerRef = NoTimer
        /\ currentIndex = 0
        /\ ~isDragging /\ dragStartX = 0 /\ dragOffset = 0
        /\ isAutoPlaying /\ ~isHovered /\ ~hasDragged

\* C19: for N >= 3 the rendered sequence is [N-1, 0, 1, ..., N-1, 0],
\* followed by index 1 only when the visible-card count is greater than 2;
\* its length is N + 2 or N + 3 accordingly.
C19_PaddedSequence ==
    viewRendered =>
        \A visibleCount \in VisibleCounts :
            LET base == <<totalItems - 1>>
                            \o [i \in 1..totalItems |-> i - 1] \o <<0>>
            IN  /\ renderedCards =
                       IF visibleCount > 2 THEN base \o <<1>> ELSE base
                /\ Len(renderedCards) =
                       IF visibleCount > 2 THEN totalItems + 3
                       ELSE totalItems + 2

\* C20: for every currentIndex, slot currentIndex + 1 holds
\* item[currentIndex], the transform is
\* -(currentIndex + 1) * (cardWidth + spacing) + dragOffset, plus
\* viewportWidth / 2 - cardWidth / 2 in the centred layout, and there
\* exactly slot currentIndex + 1 is the centre card.
C20_ActiveSlot ==
    viewRendered =>
        \A cardWidth \in CardWidths, spacing \in Spacings,
           viewportWidth \in ViewportWidths, innerWidth \in InnerWidths :
            LET desktop == isDesktop(viewportWidth, innerWidth)
                slots == 0..(Len(renderedCards) - 1)
            IN  /\ renderedCards[currentIndex + 2] = currentIndex
                /\ getTransform(currentIndex, totalItems, dragOffset,
                                cardWidth, spacing, viewportWidth, desktop)
                       = (0 - (currentIndex + 1) * (cardWidth + spacing))
                             + dragOffset
                             + (IF desktop
                                THEN (viewportWidth \div 2) - (cardWidth \div 2)
                                ELSE 0)
                /\ desktop =>
                       {k \in slots :
                            isCenter(k, currentIndex, totalItems, desktop)}
                           = {currentIndex + 1}

\* C20 witness: the last item is current in the middle of a drag at offset
\* -45.
C20_Witness ==
    /\ viewRendered
    /\ currentIndex = totalItems - 1
    /\ isDragging /\ dragOffset = 0 - 45

\* The viewport width the card width is computed from.
ViewportWidthNow == viewportWidthOf(containerWidth)

\* The effective size string reads as two numbers a/b with b > 0.
SizeIsFraction ==
    /\ parsedPart(size, 1) # NaN
    /\ parsedPart(size, 2) # NaN
    /\ parsedPart(size, 2) > 0

LayoutSelectedBy(width) ==
    LET w == calculatedCardWidth
    IN  /\ width < 640 =>
               (size = <<"1", "1">> /\ w.num = ViewportWidthNow * w.den)
        /\ width = 640 => size # <<"1", "1">>
        /\ (768 <= width /\ width < 1024) =>
               /\ size = <<"1", "2">>
               /\ 2 * w.num = (ViewportWidthNow - propSpacing) * w.den
        /\ width >= 1024 => size = propSize

C23_OneAndAHalfCards ==
    (/\ propCardWidth = Undefined
     /\ screenWidth >= 640 /\ screenWidth < 768
     /\ ViewportWidthNow >= 640 /\ ViewportWidthNow < 768) =>
        LET w == calculatedCardWidth
        IN  /\ 2 * w.num > ViewportWidthNow * w.den
            /\ w.num < ViewportWidthNow * w.den

\* Parts that Number reads as a number (the empty part as 0), and those it
\* reads as 0.
NumericParts == {"", "0", "1", "2", "3", "4"}
ZeroParts == {"", "0"}

C25_ExplicitCardWidth ==
    propCardWidth # Undefined =>
        /\ calculatedCardWidth = [num |-> propCardWidth, den |-> 1]
        /\ size = propSize

\* C26: toggleAutoPlay(enable) sets isAutoPlaying to enable and not
\* isHovered and not isDragging, and changes no other field.
C26_SetAutoPlayGated ==
    [][lastOp' = "setAutoPlay" =>
         /\ isAutoPlaying' = (lastArg' = 1 /\ ~isHovered /\ ~isDragging)
         /\ UNCHANGED <<currentIndex, isDragging, dragStartX, dragOffset,
                        isHovered, hasDragged>>]_vars

\* C26 witness: toggleAutoPlay(true) was called while hovered and autoplay
\* is off.
C26_Witness ==
    /\ lastOp = "setAutoPlay" /\ lastArg = 1
    /\ isHovered /\ ~isDragging
    /\ ~isAutoPlaying

\* C27: after the unmount no interval is running and no tick is delivered.
C27_NoTimerAfterUnmount ==
    /\ [](~mounted => (activeTimers = {} /\ autoSlideTimerRef = NoTimer))
    /\ [][~mounted => lastOp' # "tick"]_vars

\* C27 witness: unmounted while autoplaying after a flagged drag; no
\* interval is left.
C27_Witness ==
    /\ lastOp = "unmount" /\ ~mounted
    /\ isAutoPlaying /\ ~isDragging /\ ~isHovered /\ hasDragged
    /\ activeTimers = {}

\* C28: a startDrag cancels every deferred hasDragged reset, so none that
\* was scheduled before it is still pending after it.
C28_StartDragCancelsReset ==
    [][lastOp' = "dragStart" => pendingResets' = 0]_vars

\* C29: a start signal received while a drag is active is ignored:
\* dragStartX, dragOffset and hasDragged keep their values.
C29_StartIgnoredWhileDragging ==
    [][(lastOp' = "dragStart" /\ isDragging) =>
          UNCHANGED <<dragStartX, dragOffset, hasDragged>>]_vars

\* C30: after the unmount neither a deferred hasDragged reset nor a
\* deferred transition re-enable is still scheduled.
C30_NoCallbackAfterUnmount ==
    ~mounted => (pendingResets = 0 /\ pendingRaf = 0)

\* C31: wrap handling suppresses the transition only when the latest index
\* change went N-1 -> 0 or 0 -> N-1; in particular a step that changes the
\* index into a committed state schedules a suppression only if that very
\* change is such a wrap.
C31_SuppressionOnlyOnWrap ==
    [][(/\ viewRendered
        /\ currentIndex' # currentIndex
        /\ ~isDragging' /\ dragOffset' = 0
        /\ pendingRaf' > pendingRaf) =>
          \/ (currentIndex = totalItems - 1 /\ currentIndex' = 0)
          \/ (currentIndex = 0 /\ currentIndex' = totalItems - 1)]_vars

\* C34: after the item collection is replaced by one of another length
\* N' >= 3, currentIndex is in [0, N').
C34_IndexValidAfterReplace ==
    [][(lastOp' = "setItems" /\ totalItems' >= 3) =>
          currentIndex' \in 0..(totalItems' - 1)]_vars

\* C35: isAutoPlaying implies not isHovered and not isDragging, so the
\* condition isAutoPlaying and not isDragging and not isHovered of the
\* auto-slide effect equals isAutoPlaying.
C35_AutoPlayImpliesIdle ==
    /\ isAutoPlaying => (~isHovered /\ ~isDragging)
    /\ (isAutoPlaying /\ ~isDragging /\ ~isHovered) <=> isAutoPlaying

\* C35 witness: a drag was released while hovered, and autoplay is off.
C35_Witness ==
    /\ lastOp = "dragEnd"
    /\ isHovered /\ ~isDragging
    /\ ~isAutoPlaying

\* C36: isMouseDownRef and isDragging agree after every step: input events
\* of the mouse and of touch, next, prev, goTo, hover changes and timer
\* callbacks.
C36_RefAgreesWithStore ==
    [][isMouseDownRef' <=> isDragging']_vars

\* C36 witness: the deferred reset fired in the middle of a drag; both
\* flags are still set.
C36_Witness ==
    /\ lastOp = "resetFire"
    /\ isMouseDownRef /\ isDragging

\* C37: on a mounted carousel a reset is pending whenever isDragging is
\* false and hasDragged is true, and hasDragged then becomes false unless a
\* new drag starts or the carousel is unmounted first.
C37_HasDraggedIsReset ==
    /\ []((mounted /\ ~isDragging /\ hasDragged) => pendingResets > 0)
    /\ (mounted /\ ~isDragging /\ hasDragged)
           ~> (~hasDragged \/ isDragging \/ ~mounted)

\* C37 witness: a flagged drag has been released: hasDragged is still true
\* and one reset is pending.
C37_Witness ==
    /\ lastOp = "dragEnd" /\ mounted
    /\ ~isDragging /\ hasDragged
    /\ pendingResets = 1

\* C38: nextSlide, prevSlide and goToSlide leave isDragging, dragStartX,
\* isAutoPlaying, isHovered and hasDragged unchanged.
C38_NavigationFrame ==
    [][lastOp' \in {"next", "prev", "goTo"} =>
          UNCHANGED <<isDragging, dragStartX, isAutoPlaying, isHovered,
                      hasDragged>>]_vars

\* C38 witness: nextSlide moved the index in the middle of a flagged drag;
\* the drag is active and autoplay is off.
C38_Witness ==
    /\ lastOp = "next"
    /\ currentIndex # lastIndex
    /\ isDragging /\ hasDragged /\ ~isAutoPlaying

\* Autoplay is off although nothing is hovered or dragged.
ExplicitlyOff == mounted /\ ~isAutoPlaying /\ ~isHovered /\ ~isDragging

\* C39: autoplay is off without hover or drag only after
\* toggleAutoPlay(false), and that is not remembered: a hover-leave with no
\* drag and a release while not hovered each leave isAutoPlaying true with
\* the interval running, and a hover-enter from the switched-off state is
\* followed by such a hover-leave.
C39_AutoPlayOffNotRemembered ==
    /\ [][(~ExplicitlyOff /\ ExplicitlyOff') =>
             (lastOp' = "setAutoPlay" /\ lastArg' = 0)]_vars
    /\ [][(ExplicitlyOff /\ lastOp' = "hoverEnter") =>
             (isHovered' /\ ~isDragging' /\ ~isAutoPlaying')]_vars
    /\ [][(ExplicitlyOff /\ lastOp' = "dragStart") =>
             (isDragging' /\ ~isHovered' /\ ~isAutoPlaying')]_vars
    /\ [][(lastOp' = "hoverLeave" /\ ~isDragging /\ ~isAutoPlaying) =>
             (isAutoPlaying' /\ TimerRunning')]_vars
    /\ [][(EndDragStep /\ ~isHovered /\ ~isAutoPlaying) =>
             (isAutoPlaying' /\ TimerRunning')]_vars

\* C39 witness: right after a hover-leave with no drag, autoplay is on and
\* the interval runs.
C39_Witness ==
    /\ lastOp = "hoverLeave"
    /\ ~isDragging /\ ~isHovered
    /\ isAutoPlaying /\ TimerRunning

\* C40: a release at dragOffset 0 never changes currentIndex, whatever
\* minDragDistance >= 0 is configured.
C40_NoMoveNoNavigation ==
    [][(EndDragStep /\ dragOffset = 0) => currentIndex' = currentIndex]_vars

C33_NavigationRestartsTimer ==
    [][(lastOp' \in {"next", "prev", "goTo"} /\ TimerRunning') =>
          ~timerElapsed']_vars

\* C33, amended: a change of isAutoPlaying, isDragging or isHovered leaves
\* a running interval only with its full period ahead, while nextSlide,
\* prevSlide and goToSlide leave the interval and its clock as they are.
C33_DependencyRestartsTimer ==
    /\ [][(<<isAutoPlaying', isDragging', isHovered'>>
               # <<isAutoPlaying, isDragging, isHovered>>
           /\ TimerRunning') => ~timerElapsed']_vars
    /\ [][lastOp' \in {"next", "prev", "goTo"} =>
             UNCHANGED <<autoSlideTimerRef, activeTimers, timerElapsed>>]_vars

\* C33 witness: nextSlide moved the index while the interval was part-way
\* through its period, and it still is.
C33_Witness ==
    /\ lastOp = "next"
    /\ currentIndex # lastIndex
    /\ TimerRunning /\ timerElapsed

====
